---- MODULE Spec2Model ----
(***************************************************************************)
(* Tool-invocation protocol and conversation loop of research-script-agent *)
(*   - the calculator tool (tools/calculator.ts): parseCall, execute       *)
(*   - the tool registry (tools/registry.ts): parseToolCall,               *)
(*     executeToolCall                                                     *)
(*   - the transport wrapper (core/ai.ts): AICore.chat                     *)
(*   - the chat loop (startChat, respondWithAssistant)                     *)
(*                                                                         *)
(* A text is a sequence of one-character strings, so that trim, split,     *)
(* case conversion and number parsing are computed on characters.          *)
(***************************************************************************)
EXTENDS Integers, Sequences, FiniteSets, TLC

VARIABLES
  conversation,  \* startChat: the ChatMessage[] transcript
  pc,            \* where the chat loop is suspended
  toolCall,      \* respondWithAssistant: the ParsedToolCall being executed
  shown,         \* the last thing written to the console by the chat loop
  turnStart,     \* history: the transcript just before the turn's push
  turnInput,     \* history: the trimmed user input of the turn
  iters,         \* history: tool-call iterations completed in the turn
  popped,        \* history: index and message removed by the last rollback
  received,      \* history: the replies the model gave in the turn, in order
  message,       \* registry harness: the text given to parseToolCall
  parsed,        \* registry harness: what parseToolCall returned for it
  registryTools, \* ToolRegistry.tools: the registered tools, in Map order
  registered,    \* history: every tool passed to register, in call order
  outcome        \* registry harness: what executeToolCall returned

vars == <<conversation, pc, toolCall, shown, turnStart, turnInput, iters,
          popped, received, message, parsed, registryTools,
          registered, outcome>>

-----------------------------------------------------------------------------
(* Bounds of the model                                                     *)

\* texts given to the recognizer have at most this many tokens
MaxTokens == 5
\* a new turn is accepted while the transcript is shorter than this
MaxLen == 5
\* the modelled language model issues at most this many calls in one turn
MaxIter == 2

-----------------------------------------------------------------------------
(* Characters and strings                                                  *)

Lower == <<"a","b","c","d","e","f","g","h","i","j","k","l","m",
           "n","o","p","q","r","s","t","u","v","w","x","y","z">>
Upper == <<"A","B","C","D","E","F","G","H","I","J","K","L","M",
           "N","O","P","Q","R","S","T","U","V","W","X","Y","Z">>
Digits == <<"0","1","2","3","4","5","6","7","8","9">>

\* the characters the regular expression class \s matches, of those used here
Whitespace == {" ", "\n", "\t"}

IsWs(c) == c \in Whitespace

UpperChar(c) ==
  IF \E i \in 1..Len(Lower) : Lower[i] = c
  THEN Upper[CHOOSE i \in 1..Len(Lower) : Lower[i] = c]
  ELSE c

LowerChar(c) ==
  IF \E i \in 1..Len(Upper) : Upper[i] = c
  THEN Lower[CHOOSE i \in 1..Len(Upper) : Upper[i] = c]
  ELSE c

\* String.prototype.toUpperCase / toLowerCase on ASCII text
toUpperCase(s) == [i \in 1..Len(s) |-> UpperChar(s[i])]
toLowerCase(s) == [i \in 1..Len(s) |-> LowerChar(s[i])]

\* String.prototype.startsWith
startsWith(s, p) == Len(s) >= Len(p) /\ SubSeq(s, 1, Len(p)) = p

RECURSIVE TrimStart(_)
TrimStart(s) ==
  IF s # <<>> /\ IsWs(Head(s)) THEN TrimStart(Tail(s)) ELSE s

RECURSIVE TrimEnd(_)
TrimEnd(s) ==
  IF s # <<>> /\ IsWs(s[Len(s)]) THEN TrimEnd(SubSeq(s, 1, Len(s) - 1)) ELSE s

\* String.prototype.trim
trim(s) == TrimEnd(TrimStart(s))

\* first index >= i of s that holds no whitespace (Len(s)+1 when none)
RECURSIVE SkipWs(_, _)
SkipWs(s, i) ==
  IF i <= Len(s) /\ IsWs(s[i]) THEN SkipWs(s, i + 1) ELSE i

\* String.prototype.split(/\s+/): every maximal run of whitespace separates
\* two tokens; a run at either end leaves an empty token there
RECURSIVE SplitFrom(_, _, _)
SplitFrom(s, i, cur) ==
  IF i > Len(s) THEN <<cur>>
  ELSE IF IsWs(s[i]) THEN <<cur>> \o SplitFrom(s, SkipWs(s, i), <<>>)
  ELSE SplitFrom(s, i + 1, Append(cur, s[i]))

split(s) == SplitFrom(s, 1, <<>>)

-----------------------------------------------------------------------------
(* Numbers                                                                 *)

NaN == [nan |-> TRUE, val |-> 0]
Num(n) == [nan |-> FALSE, val |-> n]

IsDigit(c) == \E i \in 1..Len(Digits) : Digits[i] = c
DigitVal(c) == (CHOOSE i \in 1..Len(Digits) : Digits[i] = c) - 1

RECURSIVE DecimalValue(_)
DecimalValue(ds) ==
  IF ds = <<>> THEN 0
  ELSE 10 * DecimalValue(SubSeq(ds, 1, Len(ds) - 1)) + DigitVal(ds[Len(ds)])

AllDigits(ds) == ds # <<>> /\ \A i \in 1..Len(ds) : IsDigit(ds[i])

\* Number(string) for the literals built from digits, signs and letters other
\* than the ones of the hexadecimal, exponent and Infinity forms: the empty
\* string is 0, an optionally signed run of decimal digits is its value, and
\* everything else is NaN
Number(tok) ==
  LET t == trim(tok) IN
  IF t = <<>> THEN Num(0)
  ELSE IF AllDigits(t) THEN Num(DecimalValue(t))
  ELSE IF Head(t) = "+" /\ AllDigits(Tail(t)) THEN Num(DecimalValue(Tail(t)))
  ELSE IF Head(t) = "-" /\ AllDigits(Tail(t)) THEN Num(0 - DecimalValue(Tail(t)))
  ELSE NaN

-----------------------------------------------------------------------------
(* The calculator tool                                                     *)

TOOL_CALL_TOKEN == <<"C","A","L","L","_","T","O","O","L">>

\* the least number of tokens parseCall accepts
MinTokens == 4

OpAdd == <<"a","d","d">>
OpSubtract == <<"s","u","b","t","r","a","c","t">>
OpMultiply == <<"m","u","l","t","i","p","l","y">>
OpDivide == <<"d","i","v","i","d","e">>

CalculatorOperations == {OpAdd, OpSubtract, OpMultiply, OpDivide}

\* parseCall's null
NoMatch == [match |-> FALSE]

CalculatorArgs(operation, a, b) ==
  [match |-> TRUE, operation |-> operation, a |-> a, b |-> b]

\* parseCall without the Number.isNaN test
calculatorParseCall_NoNaNCheck(msg) ==
  LET trimmed == trim(msg)
      tokens == split(trimmed)
  IN
  IF ~startsWith(toUpperCase(trimmed), TOOL_CALL_TOKEN) THEN NoMatch
  ELSE IF Len(tokens) < MinTokens THEN NoMatch
  ELSE
    LET operation == toLowerCase(tokens[2]) IN
    IF operation \notin CalculatorOperations THEN NoMatch
    ELSE CalculatorArgs(operation, Number(tokens[3]).val, Number(tokens[4]).val)

calculatorParseCall(msg) ==
  LET trimmed == trim(msg)
      tokens == split(trimmed)
  IN
  IF ~startsWith(toUpperCase(trimmed), TOOL_CALL_TOKEN) THEN NoMatch
  ELSE IF Len(tokens) < MinTokens THEN NoMatch
  ELSE
    LET operation == toLowerCase(tokens[2])
        a == Number(tokens[3])
        b == Number(tokens[4])
    IN
    IF operation \notin CalculatorOperations THEN NoMatch
    ELSE IF a.nan \/ b.nan THEN NoMatch
    ELSE CalculatorArgs(operation, a.val, b.val)

\* a number a tool returns: the exact value num/den in lowest terms, den > 0
\* (execute computes in IEEE doubles; the operands used here are small
\* integers, whose sums, differences and products are exact)
RECURSIVE Gcd(_, _)
Gcd(m, n) == IF n = 0 THEN m ELSE Gcd(n, m % n)

Abs(n) == IF n < 0 THEN 0 - n ELSE n

Value(n) == [num |-> n, den |-> 1]

Quotient(a, b) ==
  LET g == Gcd(Abs(a), Abs(b))
      sign == IF b < 0 THEN 0 - 1 ELSE 1
  IN [num |-> (sign * a) \div g, den |-> Abs(b) \div g]

\* ToolResult
Success(result) == [success |-> TRUE, result |-> result, error |-> <<>>]
Failure(error) == [success |-> FALSE, result |-> Value(0), error |-> error]

\* an error text is a sequence of pieces: fixed phrases and interpolated values
DivisionByZeroError == <<"Division by zero is not allowed.">>

\* an execute without the zero guard: dividing by zero is reported as a success
calculatorExecute_NoZeroGuard(args) ==
  CASE args.operation = OpAdd -> Success(Value(args.a + args.b))
    [] args.operation = OpSubtract -> Success(Value(args.a - args.b))
    [] args.operation = OpMultiply -> Success(Value(args.a * args.b))
    [] args.operation = OpDivide ->
         IF args.b = 0 THEN Success(Value(0))
         ELSE Success(Quotient(args.a, args.b))
    [] OTHER ->
         Failure(<<"Unsupported calculator operation: ">> \o args.operation)

calculatorExecute(args) ==
  CASE args.operation = OpAdd -> Success(Value(args.a + args.b))
    [] args.operation = OpSubtract -> Success(Value(args.a - args.b))
    [] args.operation = OpMultiply -> Success(Value(args.a * args.b))
    [] args.operation = OpDivide ->
         IF args.b = 0 THEN Failure(DivisionByZeroError)
         ELSE Success(Quotient(args.a, args.b))
    [] OTHER ->
         Failure(<<"Unsupported calculator operation: ">> \o args.operation)

calculatorTool ==
  [name |-> "calculator",
   description |->
     "Performs basic arithmetic operations: add, subtract, multiply, divide",
   impl |-> "calculatorTool"]

-----------------------------------------------------------------------------
(* The tool registry                                                       *)

\* Tool objects a caller of register may pass besides the calculator: one whose
\* parseCall matches every text that starts with the call token as a word of
\* its own, one whose parseCall matches nothing; execute of each returns a
\* value of its own
StubArgs == [match |-> TRUE]
StubCallResult == 1001
StubNeverResult == 1002

stubCallParseCall(msg) ==
  LET tokens == split(trim(msg)) IN
  IF Len(tokens) >= 1 /\ toUpperCase(tokens[1]) = TOOL_CALL_TOKEN
  THEN StubArgs
  ELSE NoMatch

StubTool(name, impl) ==
  [name |-> name, description |-> "a caller's tool", impl |-> impl]

\* Tool.parseCall and Tool.execute of a registered tool object
ToolParseCall(tool, msg) ==
  CASE tool.impl = "calculatorTool" -> calculatorParseCall(msg)
    [] tool.impl = "stubCall" -> stubCallParseCall(msg)
    [] tool.impl = "stubNever" -> NoMatch

ToolExecute(tool, args) ==
  CASE tool.impl = "calculatorTool" -> calculatorExecute(args)
    [] tool.impl = "stubCall" -> Success(Value(StubCallResult))
    [] tool.impl = "stubNever" -> Success(Value(StubNeverResult))

\* the Map<string, Tool> as the sequence of its values in insertion order;
\* Map.set on a name already present replaces the value in place
\* a register that keeps the tool a name already has
register_KeepFirst(tools, tool) ==
  IF \E i \in 1..Len(tools) : tools[i].name = tool.name
  THEN tools
  ELSE Append(tools, tool)

register(tools, tool) ==
  IF \E i \in 1..Len(tools) : tools[i].name = tool.name
  THEN [i \in 1..Len(tools) |->
          IF tools[i].name = tool.name THEN tool ELSE tools[i]]
  ELSE Append(tools, tool)

\* new ToolRegistry(): the constructor registers the calculator
toolRegistry == register(<<>>, calculatorTool)

\* parseToolCall's null
NoCall == [call |-> FALSE]

ParsedToolCall(toolName, args) ==
  [call |-> TRUE, toolName |-> toolName, args |-> args]

\* a parseToolCall that returns the last matching tool's call
parseToolCall_LastMatch(tools, msg) ==
  LET hits == {i \in 1..Len(tools) : ToolParseCall(tools[i], msg).match}
  IN
  IF hits = {} THEN NoCall
  ELSE LET last == CHOOSE i \in hits : \A j \in hits : i >= j
       IN ParsedToolCall(tools[last].name, ToolParseCall(tools[last], msg))

parseToolCall(tools, msg) ==
  LET hits == {i \in 1..Len(tools) : ToolParseCall(tools[i], msg).match}
  IN
  IF hits = {} THEN NoCall
  ELSE LET first == CHOOSE i \in hits : \A j \in hits : i <= j
       IN ParsedToolCall(tools[first].name, ToolParseCall(tools[first], msg))

\* an executeToolCall whose not-found error does not say which tool
executeToolCall_AnonymousNotFound(tools, parsedCall) ==
  IF \A i \in 1..Len(tools) : tools[i].name # parsedCall.toolName
  THEN Failure(<<"Tool not found">>)
  ELSE LET tool == tools[CHOOSE i \in 1..Len(tools) :
                           tools[i].name = parsedCall.toolName]
       IN ToolExecute(tool, parsedCall.args)

executeToolCall(tools, parsedCall) ==
  IF \A i \in 1..Len(tools) : tools[i].name # parsedCall.toolName
  THEN Failure(<<"Tool \"", parsedCall.toolName, "\" not found">>)
  ELSE LET tool == tools[CHOOSE i \in 1..Len(tools) :
                           tools[i].name = parsedCall.toolName]
       IN ToolExecute(tool, parsedCall.args)

RECURSIVE ToolLines(_)
ToolLines(tools) ==
  IF tools = <<>> THEN <<>>
  ELSE <<"- ", Head(tools).name, ": ", Head(tools).description>>
       \o (IF Len(tools) > 1 THEN <<"\n">> ELSE <<>>)
       \o ToolLines(Tail(tools))

generateSystemPrompt(tools) ==
  <<"You have access to the following tools:", "\n">>
  \o ToolLines(tools)
  \o <<"\n", "\n",
       "When you need to use a tool, reply with exactly: CALL_TOOL <operation> <arg1> <arg2> (e.g. 'CALL_TOOL add 2 2').",
       "\n",
       "Wait for a follow-up message that begins with ", "\"",
       "You executed", "\"",
       " containing the result, then continue the conversation without repeating the tool call.">>

-----------------------------------------------------------------------------
(* The transport wrapper                                                   *)

\* what client.chat.send can produce: a rejected request, a completion whose
\* first choice has no message, one whose message content is neither a string
\* nor an array, a string content, an array of content parts
SendRejected == [kind |-> "rejected", content |-> <<>>, parts |-> <<>>]
SendNoMessage == [kind |-> "nomessage", content |-> <<>>, parts |-> <<>>]
SendNoContent == [kind |-> "nocontent", content |-> <<>>, parts |-> <<>>]
SendString(text) == [kind |-> "string", content |-> text, parts |-> <<>>]
SendArray(parts) == [kind |-> "array", content |-> <<>>, parts |-> parts]

RECURSIVE JoinParts(_)
JoinParts(parts) ==
  IF parts = <<>> THEN <<>> ELSE Head(parts) \o JoinParts(Tail(parts))

\* what AICore.chat gives its caller: a response, or a thrown Error
Threw == [threw |-> TRUE, content |-> <<>>]
Response(content) == [threw |-> FALSE, content |-> content]

chat(completion) ==
  CASE completion.kind = "rejected" -> Threw
    [] completion.kind = "nomessage" -> Threw
    [] completion.kind = "string" -> Response(completion.content)
    [] completion.kind = "array" -> Response(JoinParts(completion.parts))
    [] OTHER -> Threw

-----------------------------------------------------------------------------
(* Messages of the chat loop                                               *)

ChatMessage(role, content) == [role |-> role, content |-> content]

SystemMessage ==
  ChatMessage("system",
    <<"You are a helpful research assistant chatting with the user through their terminal.",
      "\n\n">> \o generateSystemPrompt(toolRegistry))

\* the decimal digits of a natural number
RECURSIVE NatDigits(_)
NatDigits(n) ==
  IF n < 10 THEN <<Digits[n + 1]>>
  ELSE NatDigits(n \div 10) \o <<Digits[(n % 10) + 1]>>

\* the digits after the decimal point of r/den, r < den, for a quotient whose
\* expansion ends (den divides a power of ten)
RECURSIVE FractionDigits(_, _)
FractionDigits(r, den) ==
  IF r = 0 THEN <<>>
  ELSE <<Digits[((10 * r) \div den) + 1]>> \o FractionDigits((10 * r) % den, den)

\* Number to string, as a template literal and JSON.stringify print it
NumberToString(v) ==
  LET n == Abs(v.num)
      whole == NatDigits(n \div v.den)
      frac == FractionDigits(n % v.den, v.den)
  IN (IF v.num < 0 THEN <<"-">> ELSE <<>>)
     \o whole
     \o (IF frac = <<>> THEN <<>> ELSE <<".">> \o frac)

\* JSON.stringify of CalculatorArgs
StringifyArgs(args) ==
  <<"{\"operation\":\"">> \o args.operation
  \o <<"\",\"a\":">> \o NumberToString(Value(args.a))
  \o <<",\"b\":">> \o NumberToString(Value(args.b))
  \o <<"}">>

toolMessage(call, toolResult) ==
  <<"You executed", " ", call.toolName, "(">> \o StringifyArgs(call.args)
  \o <<"); result = ">> \o NumberToString(toolResult.result)
  \o <<". Use this to reply to the user.">>

\* the failure message without the tool's error text
errorMessage_NoError(toolResult) ==
  <<"Tool execution failed. Use this to reply to the user.">>

errorMessage(toolResult) ==
  <<"Tool execution failed: ">> \o toolResult.error
  \o <<". Use this to reply to the user.">>

-----------------------------------------------------------------------------
(* The chat loop: startChat and respondWithAssistant                       *)

EXIT_COMMANDS ==
  {<<"e","x","i","t">>, <<"/","e","x","i","t">>,
   <<"q","u","i","t">>, <<"/","q","u","i","t">>}

\* lines the user types at the prompt
Lines ==
  {<<"h","i">>,
   <<" ","2","+","2","?"," ">>,
   <<>>,
   <<" ","\t">>,
   <<"e","x","i","t">>,
   <<" ","/","Q","u","i","t"," ">>}

TextAdd22 == <<"C","A","L","L","_","T","O","O","L"," ","a","d","d"," ","2"," ","2">>
TextDivide50 ==
  <<"c","a","l","l","_","t","o","o","l"," ","d","i","v","i","d","e"," ","5"," ","0","\n">>
TextOk == <<" ","o","k","\n">>
PartsMultiplyX3 ==
  <<<<"C","A","L","L","_","T","O","O","L"," ","m","u","l","t","i","p","l","y">>,
    <<" ","x"," ","3">>>>

\* what the transport produces for one request
Completions ==
  {SendRejected, SendNoMessage, SendNoContent,
   SendString(TextAdd22), SendString(TextDivide50), SendString(TextOk),
   SendString(<<>>), SendArray(PartsMultiplyX3)}

\* for each completion, the reply text respondWithAssistant works with and
\* what parseToolCall makes of it (computed once, as tables)
assistantReplies == [c \in Completions |-> trim(chat(c).content)]
toolCalls ==
  [c \in Completions |-> parseToolCall(toolRegistry, assistantReplies[c])]

assistantReplyOf(completion) == assistantReplies[completion]
toolCallOf(completion) == toolCalls[completion]

\* Array.prototype.push and Array.prototype.pop on the transcript
push(conv, msg) == Append(conv, msg)
\* a catch block that leaves the transcript as it is
pop_none(conv) == conv
\* a catch block that also removes the message before the last one
pop_two(conv) == SubSeq(conv, 1, Len(conv) - 2)
pop(conv) == SubSeq(conv, 1, Len(conv) - 1)

NoPop == [index |-> 0, message |-> ChatMessage("none", <<>>)]

\* no executeToolCall has returned yet
NoOutcome == [returned |-> FALSE]
\* the ToolResult executeToolCall resolved with
Returned(toolResult) == [returned |-> TRUE, toolResult |-> toolResult]

Init ==
  /\ conversation = <<SystemMessage>>
  /\ pc = "prompt"
  /\ toolCall = NoCall
  /\ shown = "AI Terminal Chat"
  /\ turnStart = <<SystemMessage>>
  /\ turnInput = <<>>
  /\ iters = 0
  /\ popped = NoPop
  /\ received = <<>>
  /\ message = <<>>
  /\ parsed = NoCall
  /\ registryTools = toolRegistry
  /\ registered = <<calculatorTool>>
  /\ outcome = NoOutcome

harness == <<message, parsed, registryTools, registered, outcome>>
history == <<turnStart, turnInput, iters, popped, received>>

\* rl.question returns a line that is empty once trimmed: continue
ReadBlank ==
  /\ pc = "prompt"
  /\ \E line \in Lines : trim(line) = <<>>
  /\ UNCHANGED vars

\* rl.question returns an exit command: break, and the finally closes
ReadExit ==
  /\ pc = "prompt"
  /\ \E line \in Lines :
       /\ trim(line) # <<>>
       /\ toLowerCase(trim(line)) \in EXIT_COMMANDS
  /\ pc' = "closed"
  /\ shown' = "Goodbye!"
  /\ UNCHANGED <<conversation, toolCall, history, harness>>

\* rl.question returns the user's input: it is pushed and the turn begins
ReadInput ==
  /\ pc = "prompt"
  /\ Len(conversation) < MaxLen
  /\ \E line \in Lines :
       LET userInput == trim(line) IN
       /\ userInput # <<>>
       /\ toLowerCase(userInput) \notin EXIT_COMMANDS
       /\ conversation' = push(conversation, ChatMessage("user", userInput))
       /\ turnStart' = conversation
       /\ turnInput' = userInput
  /\ iters' = 0
  /\ received' = <<>>
  /\ pc' = "chat"
  /\ UNCHANGED <<toolCall, shown, popped, harness>>

\* a loop that keeps only final replies in the transcript
Reply_NoPushOnCall(completion) ==
  LET assistantReply == assistantReplyOf(completion)
      call == toolCallOf(completion)
  IN
  /\ pc = "chat"
  /\ ~chat(completion).threw
  /\ IF ~call.call
     THEN /\ conversation' =
               push(conversation, ChatMessage("assistant", assistantReply))
          /\ shown' = "AI reply"
          /\ pc' = "prompt"
          /\ toolCall' = NoCall
     ELSE /\ conversation' = conversation
          /\ shown' = "AI requested"
          /\ pc' = "tool"
          /\ toolCall' = call
  /\ received' = Append(received, assistantReply)
  /\ UNCHANGED <<turnStart, turnInput, iters, popped, harness>>

\* a loop that returns after the first reply, call or not
Reply_StopsOnCall(completion) ==
  LET assistantReply == assistantReplyOf(completion) IN
  /\ pc = "chat"
  /\ ~chat(completion).threw
  /\ conversation' = push(conversation, ChatMessage("assistant", assistantReply))
  /\ shown' = "AI reply"
  /\ pc' = "prompt"
  /\ toolCall' = NoCall
  /\ received' = Append(received, assistantReply)
  /\ UNCHANGED <<turnStart, turnInput, iters, popped, harness>>

\* ai.chat resolves with `completion`: the reply is pushed and parsed; a reply
\* that is no call ends the turn, a call goes on to be executed
Reply(completion) ==
  LET assistantReply == assistantReplyOf(completion)
      call == toolCallOf(completion)
  IN
  /\ pc = "chat"
  /\ ~chat(completion).threw
  /\ conversation' = push(conversation, ChatMessage("assistant", assistantReply))
  /\ IF ~call.call
     THEN /\ shown' = "AI reply"
          /\ pc' = "prompt"
          /\ toolCall' = NoCall
     ELSE /\ shown' = "AI requested"
          /\ pc' = "tool"
          /\ toolCall' = call
  /\ received' = Append(received, assistantReply)
  /\ UNCHANGED <<turnStart, turnInput, iters, popped, harness>>

IsCall(completion) ==
  /\ ~chat(completion).threw
  /\ toolCallOf(completion).call

ChatFinal ==
  \E completion \in Completions : ~IsCall(completion) /\ Reply(completion)

ChatCall ==
  /\ iters < MaxIter
  /\ \E completion \in Completions : IsCall(completion) /\ Reply(completion)

\* a loop that does not feed the tool's outcome back
ToolReturns_NoPush ==
  /\ pc = "tool"
  /\ shown' = "Tool result"
  /\ iters' = iters + 1
  /\ pc' = "chat"
  /\ toolCall' = NoCall
  /\ UNCHANGED <<conversation, turnStart, turnInput, popped, received, harness>>

\* a loop that feeds the tool's outcome back as an assistant message
ToolReturns_AsAssistant ==
  LET toolResult == executeToolCall(toolRegistry, toolCall) IN
  /\ pc = "tool"
  /\ IF toolResult.success
     THEN /\ conversation' =
               push(conversation,
                    ChatMessage("assistant", toolMessage(toolCall, toolResult)))
          /\ shown' = "Tool result"
     ELSE /\ conversation' =
               push(conversation,
                    ChatMessage("assistant", errorMessage(toolResult)))
          /\ shown' = "Tool error"
  /\ iters' = iters + 1
  /\ pc' = "chat"
  /\ toolCall' = NoCall
  /\ UNCHANGED <<turnStart, turnInput, popped, received, harness>>

\* executeToolCall resolves: the synthetic message is pushed and the loop
\* goes round to ai.chat
ToolReturns ==
  LET toolResult == executeToolCall(toolRegistry, toolCall) IN
  /\ pc = "tool"
  /\ IF toolResult.success
     THEN /\ conversation' =
               push(conversation,
                    ChatMessage("user", toolMessage(toolCall, toolResult)))
          /\ shown' = "Tool result"
     ELSE /\ conversation' =
               push(conversation, ChatMessage("user", errorMessage(toolResult)))
          /\ shown' = "Tool error"
  /\ iters' = iters + 1
  /\ pc' = "chat"
  /\ toolCall' = NoCall
  /\ UNCHANGED <<turnStart, turnInput, popped, received, harness>>

\* a chat loop without the catch: the error ends startChat
ChatThrows_Exits ==
  /\ pc = "chat"
  /\ \E completion \in Completions : chat(completion).threw
  /\ shown' = "Fatal error"
  /\ pc' = "closed"
  /\ UNCHANGED <<conversation, toolCall, history, harness>>

\* ai.chat throws out of respondWithAssistant: startChat's catch pops the
\* transcript once and reports the failure
ChatThrows ==
  /\ pc = "chat"
  /\ \E completion \in Completions : chat(completion).threw
  /\ conversation' = pop(conversation)
  /\ popped' = [index |-> Len(conversation),
                message |-> conversation[Len(conversation)]]
  /\ shown' = "Failed to reach AI"
  /\ pc' = "prompt"
  /\ UNCHANGED <<toolCall, turnStart, turnInput, iters, received, harness>>

Next ==
  \/ ReadBlank
  \/ ReadExit
  \/ ReadInput
  \/ ChatFinal
  \/ ChatCall
  \/ ToolReturns
  \/ ChatThrows

Spec == Init /\ [][Next]_vars

-----------------------------------------------------------------------------
(* The recognizer on its own: parseToolCall applied to a text              *)

\* words a text may hold at each position
HeadWords ==
  {<<"C","A","L","L","_","T","O","O","L">>,
   <<"c","a","l","l","_","t","o","o","l">>,
   <<"C","a","l","l","_","T","o","o","l">>,
   <<"C","A","L","L","_","T","O","O","L","S">>,
   <<"C","A","L","L">>,
   <<"a","d","d">>}
OpWords ==
  {<<"a","d","d">>, <<"D","i","v","i","d","e">>, <<"s","u","b","t","r","a","c","t">>,
   <<"m","u","l","t","i","p","l","y">>, <<"m","o","d">>, <<"2">>}
OperandWords ==
  {<<"2">>, <<"0">>, <<"-","3">>, <<"+","1","2">>, <<"x">>, <<"2","y">>}
ExtraWords ==
  {<<"p","l","e","a","s","e">>, <<"7">>}

WordsAt(i) ==
  CASE i = 1 -> HeadWords
    [] i = 2 -> OpWords
    [] i \in {3, 4} -> OperandWords
    [] OTHER -> ExtraWords

\* the sequences of n words, the i-th from WordsAt(i)
RECURSIVE WordSeqs(_)
WordSeqs(n) ==
  IF n = 0 THEN {<<>>}
  ELSE {Append(ws, w) : ws \in WordSeqs(n - 1), w \in WordsAt(n)}

Separators == {<<" ">>, <<" ", "\n">>}
Margins == {<<>>, <<" ">>}

RECURSIVE Join(_, _)
Join(ws, sep) ==
  IF ws = <<>> THEN <<>>
  ELSE IF Len(ws) = 1 THEN Head(ws)
  ELSE Head(ws) \o sep \o Join(Tail(ws), sep)

Texts ==
  {margin \o Join(ws, sep) \o margin :
     ws \in UNION {WordSeqs(n) : n \in 0..MaxTokens},
     sep \in Separators, margin \in Margins}

InitParse ==
  /\ message \in Texts
  /\ parsed = NoCall
  /\ pc = "text"
  /\ conversation = <<SystemMessage>>
  /\ toolCall = NoCall
  /\ shown = ""
  /\ turnStart = <<SystemMessage>>
  /\ turnInput = <<>>
  /\ iters = 0
  /\ popped = NoPop
  /\ received = <<>>
  /\ registryTools = toolRegistry
  /\ registered = <<calculatorTool>>
  /\ outcome = NoOutcome

Recognize ==
  /\ pc = "text"
  /\ parsed' = parseToolCall(toolRegistry, message)
  /\ pc' = "recognized"
  /\ UNCHANGED <<message, conversation, toolCall, shown, history,
                 registryTools, registered, outcome>>

\* registry.executeToolCall(parsed) for a text that was recognized
Execute ==
  /\ pc = "recognized"
  /\ parsed.call
  /\ outcome' = Returned(executeToolCall(toolRegistry, parsed))
  /\ pc' = "executed"
  /\ UNCHANGED <<message, parsed, conversation, toolCall, shown, history,
                 registryTools, registered>>

NextParse ==
  \/ Recognize
  \/ Execute

SpecParse == InitParse /\ [][NextParse]_vars

-----------------------------------------------------------------------------
(* The registry on its own: register, parseToolCall and executeToolCall    *)

MaxRegistered == 4

TextPing == <<"C","A","L","L","_","T","O","O","L"," ","p","i","n","g">>
TextHi == <<"h","i">>

\* the tools passed to register, and the texts and calls given to the registry
TestTools ==
  {calculatorTool,
   StubTool("calculator", "stubCall"),
   StubTool("alpha", "stubCall"),
   StubTool("alpha", "stubNever"),
   StubTool("beta", "stubCall")}
RegistryTexts == {TextAdd22, TextPing, TextHi}
DispatchCalls ==
  {ParsedToolCall(name, CalculatorArgs(OpAdd, 2, 2)) :
     name \in {"calculator", "alpha", "beta", "ghost"}}

InitRegistry ==
  /\ registryTools = toolRegistry
  /\ registered = <<calculatorTool>>
  /\ message = <<>>
  /\ parsed = NoCall
  /\ outcome = NoOutcome
  /\ pc = "registry"
  /\ conversation = <<SystemMessage>>
  /\ toolCall = NoCall
  /\ shown = ""
  /\ turnStart = <<SystemMessage>>
  /\ turnInput = <<>>
  /\ iters = 0
  /\ popped = NoPop
  /\ received = <<>>

\* registry.register(tool)
Register ==
  /\ pc = "registry"
  /\ Len(registered) < MaxRegistered
  /\ \E tool \in TestTools :
       /\ registryTools' = register(registryTools, tool)
       /\ registered' = Append(registered, tool)
  /\ message' = <<>>
  /\ parsed' = NoCall
  /\ toolCall' = NoCall
  /\ outcome' = NoOutcome
  /\ UNCHANGED <<pc, conversation, shown, history>>

\* registry.parseToolCall(message)
Parse ==
  /\ pc = "registry"
  /\ \E msg \in RegistryTexts :
       /\ message' = msg
       /\ parsed' = parseToolCall(registryTools, msg)
  /\ UNCHANGED <<pc, registryTools, registered, toolCall, outcome,
                 conversation, shown, history>>

\* registry.executeToolCall(parsedCall)
Dispatch ==
  /\ pc = "registry"
  /\ \E parsedCall \in DispatchCalls :
       /\ toolCall' = parsedCall
       /\ outcome' = Returned(executeToolCall(registryTools, parsedCall))
  /\ UNCHANGED <<pc, registryTools, registered, message, parsed,
                 conversation, shown, history>>

NextRegistry ==
  \/ Register
  \/ Parse
  \/ Dispatch

SpecRegistry == InitRegistry /\ [][NextRegistry]_vars

\* the chat loop and the registry on its own, side by side
InitProgram == Init \/ InitRegistry
NextProgram == Next \/ NextRegistry
SpecProgram == InitProgram /\ [][NextProgram]_vars

\* the chat loop when the transport never fails, the tool always returns and
\* the model does not call tools for ever
NextNoFailure ==
  \/ ReadBlank
  \/ ReadExit
  \/ ReadInput
  \/ ChatFinal
  \/ ChatCall
  \/ ToolReturns

SpecNoFailure ==
  /\ Init
  /\ [][NextNoFailure]_vars
  /\ WF_vars(ToolReturns)
  /\ SF_vars(ChatFinal)

-----------------------------------------------------------------------------
(* Properties of the chat loop                                             *)

Last(seq) == seq[Len(seq)]

\* the turn ended in startChat's catch block
TurnFailed == pc = "prompt" /\ shown = "Failed to reach AI"
\* the turn ended with respondWithAssistant returning
TurnComplete == pc = "prompt" /\ shown = "AI reply"

\* the synthetic message the loop appends for the call in `reply`
SyntheticFor(reply) ==
  LET call == parseToolCall(toolRegistry, reply)
      toolResult == executeToolCall(toolRegistry, call)
  IN ChatMessage("user",
       IF toolResult.success THEN toolMessage(call, toolResult)
       ELSE errorMessage(toolResult))

\* the replies the transport can deliver, those of them that are calls, and
\* the synthetic message of each
ReplyTexts == {assistantReplies[c] : c \in Completions}
RecognizedReplies == {r \in ReplyTexts : parseToolCall(toolRegistry, r).call}
SyntheticMessages == [r \in RecognizedReplies |-> SyntheticFor(r)]

\* `piece` occurs in `content`
Carries(content, piece) ==
  \E i \in 1..Len(content) :
    /\ i + Len(piece) - 1 <= Len(content)
    /\ SubSeq(content, i, i + Len(piece) - 1) = piece

\* C1: when the first model request of a turn fails, the transcript after the
\* failure is handled equals the transcript before the turn began.
C1_FirstRequestRollback ==
  (TurnFailed /\ iters = 0) => conversation = turnStart

C1_Witness ==
  TurnFailed /\ iters = 0 /\ Len(conversation) >= 3 /\ popped.index = 4

\* C2: every rollback removes exactly one message, and it is the initiating
\* user message of the turn, also after tool-call iterations.
C2_RollbackRemovesInitiating ==
  TurnFailed =>
    /\ Len(conversation) = Len(turnStart) + 2 * iters
    /\ popped.index = Len(turnStart) + 1
    /\ popped.message = ChatMessage("user", turnInput)

\* C3: after a failure that follows k >= 1 tool-call iterations, each of the k
\* call messages of the turn is still in the transcript, immediately followed
\* by its synthetic result.
C3_PairsSurviveRollback ==
  (TurnFailed /\ iters >= 1) =>
    \A j \in 1..iters :
      \E i \in (Len(turnStart) + 1)..(Len(conversation) - 1) :
        /\ conversation[i] = ChatMessage("assistant", received[j])
        /\ conversation[i + 1] = SyntheticFor(received[j])

\* C4: a turn of n tool calls and a final reply, with no transport failure,
\* appends the user message, then each call followed by its synthetic result,
\* in the order the model gave them, then the final reply, and nothing else.
C4_TurnTranscript ==
  TurnComplete =>
    LET base == Len(turnStart) IN
    /\ Len(received) = iters + 1
    /\ Len(conversation) = base + 2 * iters + 2
    /\ SubSeq(conversation, 1, base) = turnStart
    /\ conversation[base + 1] = ChatMessage("user", turnInput)
    /\ \A i \in 1..iters :
         /\ conversation[base + 2 * i] = ChatMessage("assistant", received[i])
         /\ received[i] \in RecognizedReplies
         /\ conversation[base + 2 * i + 1] = SyntheticMessages[received[i]]
    /\ Last(conversation) = ChatMessage("assistant", Last(received))
    /\ Last(received) \in ReplyTexts \ RecognizedReplies

C4_Witness ==
  TurnComplete /\ iters = 2 /\ received[1] # received[2]

\* C5: the transcript is never empty, its first message is the system message
\* and no other message has role system.
C5_SystemMessageFirst ==
  /\ Len(conversation) >= 1
  /\ conversation[1].role = "system"
  /\ \A i \in 2..Len(conversation) : conversation[i].role # "system"

C5_Witness ==
  TurnFailed /\ iters >= 1 /\ Len(conversation) >= 3

\* what a step taken while a division by zero is being executed does
C6_Step ==
  (pc = "tool" /\ toolCall.args.operation = OpDivide /\ toolCall.args.b = 0) =>
    /\ Len(conversation') = Len(conversation) + 1
    /\ SubSeq(conversation', 1, Len(conversation)) = conversation
    /\ Last(conversation').role = "user"
    /\ Carries(Last(conversation').content, DivisionByZeroError)
    /\ pc' = "chat"
    /\ popped' = popped
    /\ shown' = "Tool error"

\* C6: a tool call that ends in a failed outcome (division by zero) appends
\* one user message carrying the error, removes nothing, causes no rollback
\* and leaves the loop waiting for the model again.
C6_ToolFailureIsData == [][C6_Step]_vars

C6_Witness ==
  /\ pc = "chat"
  /\ shown = "Tool error"
  /\ Carries(Last(conversation).content, DivisionByZeroError)

\* the steps of the loop: it returns only on a reply that is no call, a call
\* goes on to be executed, and an executed call goes back to the model
C7_Step ==
  /\ (pc = "chat" /\ pc' = "prompt" /\ shown' = "AI reply") =>
       /\ Len(conversation') = Len(conversation) + 1
       /\ Last(conversation').role = "assistant"
       /\ ~parseToolCall(toolRegistry, Last(conversation').content).call
  /\ (/\ pc = "chat"
      /\ Len(conversation') = Len(conversation) + 1
      /\ parseToolCall(toolRegistry, Last(conversation').content).call) =>
       pc' = "tool"
  /\ (pc = "tool" /\ vars' # vars) =>
       /\ pc' = "chat"
       /\ iters' = iters + 1
       /\ Len(conversation') = Len(conversation) + 1

C7_TurnCompleted ==
  /\ TurnComplete
  /\ Last(conversation) = ChatMessage("assistant", Last(received))
  /\ ~parseToolCall(toolRegistry, Last(conversation).content).call

\* C7: respondWithAssistant returns only on a reply that is no call; a reply
\* that is a call is always executed and the model asked again, however many
\* iterations came before; and when the transport does not fail and the model
\* comes to give a reply that is no call, the turn completes with that reply
\* as the last message.
C7_LoopUntilFinalReply ==
  /\ [][C7_Step]_vars
  /\ (pc = "chat") ~> C7_TurnCompleted

C7_Witness ==
  C7_TurnCompleted /\ iters = MaxIter /\ Len(turnStart) >= 3

-----------------------------------------------------------------------------
(* Properties of the recognizer                                            *)

\* the tokens of the recognized text
Tokens == split(trim(message))

Recognized == pc = "recognized" /\ parsed.call

\* the numerals of the texts: an optionally signed run of decimal digits
NumeralValues == -20..20
IsNumeral(tok, n) ==
  \/ tok = NumberToString(Value(n))
  \/ n >= 0 /\ tok = <<"+">> \o NumberToString(Value(n))
Numeric(tok) == \E n \in NumeralValues : IsNumeral(tok, n)

\* C8: parseCall matches only texts of exactly four whitespace-separated
\* tokens; fewer tokens, or an extra token after the second operand, is no
\* match.
C8_ExactlyFourTokens ==
  Recognized => Len(Tokens) = 4

\* C9: parseToolCall matches no text that does not start with the call token
\* (case-insensitively), and the first token of a matched text is the call
\* token itself, not a longer word beginning with it.
C9_FirstTokenIsCallToken ==
  /\ (pc = "recognized" /\ ~startsWith(toUpperCase(trim(message)), TOOL_CALL_TOKEN))
       => ~parsed.call
  /\ Recognized => toUpperCase(Tokens[1]) = TOOL_CALL_TOKEN

\* a recognized text of the calculator's token shape
C10_Shape ==
  /\ pc = "recognized"
  /\ Len(Tokens) >= 4
  /\ toUpperCase(Tokens[1]) = TOOL_CALL_TOKEN

\* C10: for a text of the calculator's token shape, an operation keyword other
\* than add, subtract, multiply, divide, or an operand that is no number, gives
\* no match; a match carries the lower-cased operation and the two operands'
\* values in their order in the text.
C10_OperationAndOperands ==
  C10_Shape =>
    /\ (\/ toLowerCase(Tokens[2]) \notin {OpAdd, OpSubtract, OpMultiply, OpDivide}
        \/ ~Numeric(Tokens[3])
        \/ ~Numeric(Tokens[4])) => ~parsed.call
    /\ parsed.call =>
         /\ parsed.toolName = "calculator"
         /\ parsed.args.operation = toLowerCase(Tokens[2])
         /\ parsed.args.operation \in {OpAdd, OpSubtract, OpMultiply, OpDivide}
         /\ IsNumeral(Tokens[3], parsed.args.a)
         /\ IsNumeral(Tokens[4], parsed.args.b)

C10_Witness ==
  /\ C10_Shape
  /\ parsed.call
  /\ Tokens[2] # toLowerCase(Tokens[2])
  /\ parsed.args.a = 0 - 3
  /\ parsed.args.b = 12

-----------------------------------------------------------------------------
(* Properties of the replies and of the synthetic messages                 *)

\* the completions without usable content: no message, no content, or a
\* content that is the empty text
UnusableCompletions ==
  {c \in Completions :
     \/ c.kind \in {"nomessage", "nocontent"}
     \/ c.kind = "string" /\ c.content = <<>>
     \/ c.kind = "array" /\ JoinParts(c.parts) = <<>>}

\* C14: a completion without usable content (no message, absent content, or
\* empty content) is never handled as a reply: no step of the loop appends an
\* assistant message for it and hands it to parseToolCall.
C14_NoUsableContentFails ==
  [][\A c \in UnusableCompletions : ~Reply(c)]_vars

\* C15: the synthetic message appended when an executed tool call returns,
\* for a success and for a failure alike, has role user and its content holds
\* the tool's name, the arguments, and the result or the error.
C15_SyntheticIdentifiesCall ==
  [][(pc = "tool" /\ vars' # vars) =>
       LET toolResult == executeToolCall(toolRegistry, toolCall)
           content == Last(conversation').content
       IN
       /\ Last(conversation').role = "user"
       /\ Carries(content, <<toolCall.toolName>>)
       /\ Carries(content, StringifyArgs(toolCall.args))
       /\ toolResult.success => Carries(content, NumberToString(toolResult.result))
       /\ ~toolResult.success => Carries(content, toolResult.error)]_vars

\* the phrase generateSystemPrompt quotes as the beginning of the follow-up
FollowUpMarker ==
  LET prompt == generateSystemPrompt(toolRegistry)
      i == CHOOSE i \in 1..(Len(prompt) - 2) :
             prompt[i] = "\"" /\ prompt[i + 2] = "\""
  IN prompt[i + 1]

\* C17: every synthetic message, for a success and for a failure alike, begins
\* with the marker phrase that generateSystemPrompt tells the model to wait
\* for.
C17_SyntheticBeginsWithMarker ==
  (pc = "chat" /\ iters >= 1) =>
    /\ Last(conversation).role = "user"
    /\ startsWith(Last(conversation).content, <<FollowUpMarker>>)

\* a step in which a model request ends without a reply
RequestFailed == pc = "chat" /\ received' = received /\ vars' # vars

\* C16: a failed model request never ends the conversation: the step that
\* handles it leaves the loop at the prompt, where the next input is accepted,
\* the loop is closed only by an exit command, and a turn that completes after
\* an earlier failure has appended its user message, its calls with their
\* results, and its reply to the transcript the failure left.
C16_FailureDoesNotTerminate ==
  /\ [][/\ RequestFailed => pc' = "prompt"
        /\ (pc' = "closed" /\ pc # "closed") =>
             (pc = "prompt" /\ shown' = "Goodbye!")]_vars
  /\ [](/\ (TurnFailed /\ Len(conversation) < MaxLen) => ENABLED ReadInput
        /\ (TurnComplete /\ popped.index > 0) =>
             /\ Len(conversation) = Len(turnStart) + 2 * iters + 2
             /\ SubSeq(conversation, 1, Len(turnStart)) = turnStart
             /\ conversation[Len(turnStart) + 1] = ChatMessage("user", turnInput)
             /\ Last(conversation) = ChatMessage("assistant", Last(received)))

C16_Witness ==
  /\ TurnComplete
  /\ popped.index > 0
  /\ Len(turnStart) = popped.index - 1

\* C19: the message the failure rollback removes has role user; it is never
\* the system message at the head of the transcript and never an assistant
\* message.
C19_RollbackRemovesUserMessage ==
  popped.index > 0 =>
    /\ popped.message.role = "user"
    /\ popped.index >= 2
    /\ Len(conversation) >= 1

C19_Witness ==
  /\ TurnFailed
  /\ iters = MaxIter
  /\ popped.message.role = "user"
  /\ popped.message # ChatMessage("user", turnInput)

\* C20: every model request is made with a transcript whose last message has
\* role user, and when a turn completes without a failure the last message is
\* an assistant message that parseToolCall does not recognize.
C20_RequestAfterUserMessage ==
  /\ pc = "chat" => Last(conversation).role = "user"
  /\ TurnComplete =>
       /\ Last(conversation).role = "assistant"
       /\ ~parseToolCall(toolRegistry, Last(conversation).content).call

C20_Witness ==
  /\ TurnComplete
  /\ iters = 1
  /\ Len(received) = 2
  /\ conversation[Len(conversation) - 1].role = "user"

-----------------------------------------------------------------------------
(* Properties of execution                                                 *)

Executed == pc = "executed" /\ outcome.returned

\* the ToolResult is a success whose value is the exact quotient num/den
IsQuotient(toolResult, num, den) ==
  /\ toolResult.success
  /\ toolResult.result.den > 0
  /\ toolResult.result.num * den = num * toolResult.result.den

\* C11: for integer operands a and b, execute succeeds with a+b, a-b and a*b
\* for add, subtract and multiply; for divide it fails with the error
\* "Division by zero is not allowed." exactly when b is 0 and succeeds with
\* a/b otherwise; parsing and then executing "CALL_TOOL add 2 2" names the
\* tool calculator and gives the value 4.
C11_CalculatorArithmetic ==
  Executed =>
    LET a == parsed.args.a
        b == parsed.args.b
        operation == parsed.args.operation
        toolResult == outcome.toolResult
    IN
    /\ operation = OpAdd => IsQuotient(toolResult, a + b, 1)
    /\ operation = OpSubtract => IsQuotient(toolResult, a - b, 1)
    /\ operation = OpMultiply => IsQuotient(toolResult, a * b, 1)
    /\ operation = OpDivide =>
         /\ (b = 0) <=> ~toolResult.success
         /\ (b = 0) => toolResult.error = DivisionByZeroError
         /\ (b # 0) => IsQuotient(toolResult, a, b)
    /\ message = TextAdd22 =>
         /\ parsed.toolName = "calculator"
         /\ toolResult.success
         /\ toolResult.result = Value(4)

C11_Witness ==
  /\ Executed
  /\ parsed.args.operation = OpDivide
  /\ parsed.args.a = 0 - 3
  /\ parsed.args.b = 0
  /\ ~outcome.toolResult.success

-----------------------------------------------------------------------------
(* Properties of the registry                                              *)

RegisteredNames == {registered[i].name : i \in 1..Len(registered)}

\* the first and the most recent register call made with a name
FirstRegistration(name) ==
  CHOOSE i \in 1..Len(registered) :
    /\ registered[i].name = name
    /\ \A j \in 1..(i - 1) : registered[j].name # name
LatestRegistered(name) ==
  registered[CHOOSE i \in 1..Len(registered) :
               /\ registered[i].name = name
               /\ \A j \in (i + 1)..Len(registered) : registered[j].name # name]

\* C12: after any sequence of register calls the registry holds one tool for
\* each registered name and no name twice, and executeToolCall for a name runs
\* the execute of the tool most recently registered under that name.
C12_LastRegistrationWins ==
  pc = "registry" =>
    /\ \A i, j \in 1..Len(registryTools) :
         registryTools[i].name = registryTools[j].name => i = j
    /\ {registryTools[i].name : i \in 1..Len(registryTools)} = RegisteredNames
    /\ (outcome.returned /\ toolCall.toolName \in RegisteredNames) =>
         outcome.toolResult =
           ToolExecute(LatestRegistered(toolCall.toolName), toolCall.args)

C12_Witness ==
  /\ pc = "registry"
  /\ outcome.returned
  /\ \E i, j \in 1..Len(registered) :
       /\ i < j
       /\ registered[i].name = toolCall.toolName
       /\ registered[j].name = toolCall.toolName
       /\ ToolExecute(registered[i], toolCall.args) # outcome.toolResult
       /\ ToolExecute(registered[j], toolCall.args) = outcome.toolResult

\* the names whose current tool recognizes the text
MatchingNames ==
  {name \in RegisteredNames : ToolParseCall(LatestRegistered(name), message).match}

\* the first time the tool now held for a name was passed to register
RegistrationTime(name) ==
  CHOOSE i \in 1..Len(registered) :
    /\ registered[i] = LatestRegistered(name)
    /\ \A j \in 1..(i - 1) : registered[j] # LatestRegistered(name)

\* C13 as stated: parseToolCall tries the registered tools in the order in
\* which they were registered; of several tools that match a text, the result
\* names the one registered earliest, and there is no match exactly when no
\* registered tool matches.
C13_EarliestRegisteredTool ==
  pc = "registry" =>
    /\ parsed.call <=> MatchingNames # {}
    /\ parsed.call =>
         /\ parsed.toolName \in MatchingNames
         /\ \A name \in MatchingNames :
              RegistrationTime(parsed.toolName) <= RegistrationTime(name)

\* C13: parseToolCall tries the registered tools in the order in which their
\* names were first registered (a tool registered under a name already present
\* takes the place of the tool it replaces); of several tools that match a
\* text, the result names the one whose name was registered first and carries
\* that tool's arguments, and there is no match exactly when no registered
\* tool matches.
C13_FirstRegisteredName ==
  pc = "registry" =>
    /\ parsed.call <=> MatchingNames # {}
    /\ parsed.call =>
         /\ parsed.toolName \in MatchingNames
         /\ \A name \in MatchingNames :
              FirstRegistration(parsed.toolName) <= FirstRegistration(name)
         /\ ToolParseCall(LatestRegistered(parsed.toolName), message) = parsed.args

C13_Witness ==
  /\ pc = "registry"
  /\ parsed.call
  /\ Cardinality(MatchingNames) >= 2
  /\ \E name \in MatchingNames :
       RegistrationTime(name) < RegistrationTime(parsed.toolName)

RegistryNames(tools) == {tools[i].name : i \in 1..Len(tools)}

\* C18: executeToolCall for a name the registry does not hold returns a failed
\* outcome whose error names the missing tool; in the chat loop, where nothing
\* is registered during a conversation, every call parseToolCall returned
\* names a registered tool and no synthetic message reports a missing tool.
C18_NotFoundIsAnOutcome ==
  /\ (/\ pc = "registry"
      /\ outcome.returned
      /\ toolCall.toolName \notin RegistryNames(registryTools)) =>
       /\ ~outcome.toolResult.success
       /\ Carries(outcome.toolResult.error, <<toolCall.toolName>>)
       /\ Carries(outcome.toolResult.error, <<"\" not found">>)
  /\ pc = "tool" =>
       /\ toolCall.call
       /\ toolCall.toolName \in RegistryNames(toolRegistry)
  /\ (pc = "chat" /\ iters >= 1) =>
       ~Carries(Last(conversation).content, <<"\" not found">>)

C18_Witness ==
  /\ pc = "registry"
  /\ outcome.returned
  /\ toolCall.toolName = "ghost"
  /\ "ghost" \notin RegistryNames(registryTools)
  /\ Len(registryTools) >= 3
  /\ ~outcome.toolResult.success

====
